---------------------------- MODULE Spec2Model ----------------------------
(***************************************************************************)
(* PowerCenter: the OpenPowerlifting data manager (dataset cache, staleness *)
(* policy, name index, candidate finder, scorer, resolver) and the roster   *)
(* worker pool that queries it.                                             *)
(*                                                                          *)
(* Strings are sequences of one-character strings.  Scores are exact        *)
(* rationals [n, d] in lowest terms.  The code adds the parts in binary     *)
(* floating point, which can differ from the exact sum in the last place:   *)
(* the rows, names and hints of the model are such that no candidate that   *)
(* get_lifter_stats_robust finds alone has the exact score 0.7 or 0.9 and   *)
(* no two candidates of a search tie exactly with different parts, so the   *)
(* tiers and the order of the candidates are the same in both.              *)
(***************************************************************************)
EXTENDS Integers, Sequences, FiniteSets, TLC

(***************************************************************************)
(* Strings                                                                  *)
(***************************************************************************)

\* str.lower() on the model's alphabet
Lower(c) == IF c = "A" THEN "a" ELSE IF c = "B" THEN "b" ELSE c

ToLower(s) == [i \in 1..Len(s) |-> Lower(s[i])]

\* str.replace(c, '', 1): the first occurrence only
RemoveChar_FirstOnly(s, c) ==
    IF \E i \in 1..Len(s) : s[i] = c
    THEN LET i == CHOOSE i \in 1..Len(s) :
                     s[i] = c /\ \A j \in 1..(i - 1) : s[j] # c
         IN SubSeq(s, 1, i - 1) \o SubSeq(s, i + 1, Len(s))
    ELSE s

\* str.replace(c, '')
RemoveChar(s, c) == SelectSeq(s, LAMBDA x : x # c)

RECURSIVE LStrip(_)
LStrip(s) == IF s # <<>> /\ Head(s) = " " THEN LStrip(Tail(s)) ELSE s

RECURSIVE RStrip(_)
RStrip(s) ==
    IF s # <<>> /\ s[Len(s)] = " " THEN RStrip(SubSeq(s, 1, Len(s) - 1)) ELSE s

\* str.strip()
Strip(s) == RStrip(LStrip(s))

\* str.startswith
StartsWith(s, p) == Len(p) <= Len(s) /\ SubSeq(s, 1, Len(p)) = p

\* code points of the alphabet, for the ordering of keys
CharCode(c) ==
    CASE c = " " -> 32
      [] c = "," -> 44
      [] c = "A" -> 65
      [] c = "B" -> 66
      [] c = "a" -> 97
      [] c = "b" -> 98
      [] OTHER   -> 127

RECURSIVE StrLess(_, _)
StrLess(a, b) ==
    IF b = <<>> THEN FALSE
    ELSE IF a = <<>> THEN TRUE
    ELSE IF Head(a) # Head(b) THEN CharCode(Head(a)) < CharCode(Head(b))
    ELSE StrLess(Tail(a), Tail(b))

(***************************************************************************)
(* Normalizer                                                               *)
(***************************************************************************)

\* the key rule of the index builder: strip, remove spaces, lowercase
IndexKeyOf(name) == ToLower(RemoveChar(Strip(name), " "))

Variant1(name) == ToLower(RemoveChar(RemoveChar(name, " "), ","))
Variant2(name) == ToLower(RemoveChar(name, " "))
Variant3(name) == ToLower(RemoveChar(name, ","))

_normalize_search_name(name) == Variant1(name)

\* the list with nothing removed
Dedupe_KeepAll(todo, done) == done \o todo

RECURSIVE Dedupe(_, _)
Dedupe(todo, done) ==
    IF todo = <<>> THEN done
    ELSE IF \E i \in 1..Len(done) : done[i] = Head(todo)
         THEN Dedupe(Tail(todo), done)
         ELSE Dedupe(Tail(todo), Append(done, Head(todo)))

\* the strategies appended loosest first
_try_multiple_normalizations_Reversed(name) ==
    Dedupe(<<Variant3(name), Variant2(name), Variant1(name)>>, <<>>)

_try_multiple_normalizations(name) ==
    Dedupe(<<Variant1(name), Variant2(name), Variant3(name)>>, <<>>)

(***************************************************************************)
(* Dataset rows and index records                                           *)
(***************************************************************************)

\* a missing string cell (read back from the parquet cache as None)
NoneStr == <<"None">>

\* a numeric cell: a number, or text that pd.to_numeric coerces to NaN
Num(n) == [ok |-> TRUE, v |-> n]
NotNum == [ok |-> FALSE, v |-> 0]

\* pd.to_numeric(col, errors='coerce').fillna(0)
ToNumeric(cell) == IF cell.ok THEN cell.v ELSE 0

\* a Date cell: None, text that is no %Y-%m-%d date, or a date given as the
\* day it falls on, counted in days before the model's epoch (clock hour 0)
NoDate      == [kind |-> "none", ago |-> 0]
BadDate     == [kind |-> "bad", ago |-> 0]
DateAgo(n)  == [kind |-> "ymd", ago |-> n]

Row(name, wc, total, date, dots) ==
    [Name |-> name, WeightClassKg |-> wc, TotalKg |-> total, Date |-> date,
     Dots |-> dots]

\* the record preprocess_data files for row i of the table
RecordOf(ds, i) ==
    [index         |-> i - 1,
     original_name |-> ds[i].Name,
     date          |-> ds[i].Date,
     weight_class  |-> ToNumeric(ds[i].WeightClassKg),
     total         |-> ToNumeric(ds[i].TotalKg),
     dotscore      |-> ToNumeric(ds[i].Dots)]


(***************************************************************************)
(* Exact rationals for the scores                                           *)
(***************************************************************************)

RECURSIVE GCD(_, _)
GCD(a, b) == IF b = 0 THEN a ELSE GCD(b, a % b)

\* n/d in lowest terms, for n >= 0 and d > 0
Rat(n, d) == LET g == GCD(n, d) IN [n |-> n \div g, d |-> d \div g]

RAdd(a, b) == Rat(a.n * b.d + b.n * a.d, a.d * b.d)
RMul(a, b) == Rat(a.n * b.n, a.d * b.d)
RLess(a, b) == a.n * b.d < b.n * a.d
RLeq(a, b) == a.n * b.d <= b.n * a.d

RZero == Rat(0, 1)
ROne == Rat(1, 1)

Abs(x) == IF x < 0 THEN 0 - x ELSE x

(***************************************************************************)
(* Index Builder                                                            *)
(***************************************************************************)

\* a dict in insertion order: a sequence of [key, recs] entries, keys distinct
EmptyDict == [tag |-> "dict", entries |-> <<>>]
NoneIndex == [tag |-> "None", entries |-> <<>>]
Dict(entries) == [tag |-> "dict", entries |-> entries]

\* `not self._name_index`
Falsy(idx) == idx.tag = "None" \/ idx.entries = <<>>

Keys(idx) == [i \in 1..Len(idx.entries) |-> idx.entries[i].key]
KeySet(idx) == {idx.entries[i].key : i \in 1..Len(idx.entries)}
HasKey(idx, k) == k \in KeySet(idx)
Get(idx, k) ==
    idx.entries[CHOOSE i \in 1..Len(idx.entries) : idx.entries[i].key = k].recs

\* d[k] = recs on a dict: replaces in place, or appends a new key
Put(idx, k, recs) ==
    IF HasKey(idx, k)
    THEN Dict([i \in 1..Len(idx.entries) |->
                 IF idx.entries[i].key = k
                 THEN [key |-> k, recs |-> recs] ELSE idx.entries[i]])
    ELSE Dict(Append(idx.entries, [key |-> k, recs |-> recs]))

\* rows with a name (groupby drops the rows whose key is missing)
NamedRows(ds) == {i \in 1..Len(ds) : ds[i].Name # NoneStr}

RECURSIVE SortKeys(_)
SortKeys(S) ==
    IF S = {} THEN <<>>
    ELSE LET m == CHOOSE x \in S : \A y \in S \ {x} : StrLess(x, y)
         IN <<m>> \o SortKeys(S \ {m})

\* df.groupby('normalized_name'): the group keys, sorted
GroupKeys(ds) == SortKeys({IndexKeyOf(ds[i].Name) : i \in NamedRows(ds)})

\* the rows of a group collected last row first
RECURSIVE GroupFrom_LastFirst(_, _, _)
GroupFrom_LastFirst(ds, k, i) ==
    IF i > Len(ds) THEN <<>>
    ELSE IF i \in NamedRows(ds) /\ IndexKeyOf(ds[i].Name) = k
         THEN GroupFrom_LastFirst(ds, k, i + 1) \o <<RecordOf(ds, i)>>
         ELSE GroupFrom_LastFirst(ds, k, i + 1)

RECURSIVE GroupFrom(_, _, _)
GroupFrom(ds, k, i) ==
    IF i > Len(ds) THEN <<>>
    ELSE IF i \in NamedRows(ds) /\ IndexKeyOf(ds[i].Name) = k
         THEN <<RecordOf(ds, i)>> \o GroupFrom(ds, k, i + 1)
         ELSE GroupFrom(ds, k, i + 1)

\* the records of one group, in source order
GroupRecords(ds, k) == GroupFrom(ds, k, 1)

\* the index preprocess_data has built once its loop is over
GroupIndex(ds) ==
    LET ks == GroupKeys(ds)
    IN Dict([j \in 1..Len(ks) |-> [key |-> ks[j], recs |-> GroupRecords(ds, ks[j])]])

(***************************************************************************)
(* Scorer                                                                   *)
(***************************************************************************)

\* `if record['date']`: None is falsy, any text is truthy
DateTruthy(date) == date.kind # "none"

\* (datetime.now() - date).days for a parsed date, `now` in hours
DaysOld(date, now) == date.ago + (now \div 24)

\* the weight-class part with 1 - weight_diff/20 taken as it is, not max(0, .)
WeightPart_Unclamped(record, current_weight_class) ==
    IF record.weight_class > 0 /\ current_weight_class > 0
    THEN RMul(Rat(20 - Abs(record.weight_class - current_weight_class), 20),
              Rat(3, 10))
    ELSE RZero

\* the weight-class part that asks for a positive hint only
WeightPart_HintOnly(record, current_weight_class) ==
    IF current_weight_class > 0
    THEN LET weight_diff == Abs(record.weight_class - current_weight_class)
             weight_score == IF weight_diff >= 20 THEN RZero
                             ELSE Rat(20 - weight_diff, 20)
         IN RMul(weight_score, Rat(3, 10))
    ELSE RZero

WeightPart(record, current_weight_class) ==
    IF record.weight_class > 0 /\ current_weight_class > 0
    THEN LET weight_diff == Abs(record.weight_class - current_weight_class)
             weight_score == IF weight_diff >= 20 THEN RZero
                             ELSE Rat(20 - weight_diff, 20)
         IN RMul(weight_score, Rat(3, 10))
    ELSE RZero

\* the recency part with days_old <= 365 and <= 1095
RecencyPart_Inclusive(record, now) ==
    IF DateTruthy(record.date) /\ record.date.kind = "ymd"
    THEN IF DaysOld(record.date, now) <= 365 THEN Rat(1, 10)
         ELSE IF DaysOld(record.date, now) <= 1095 THEN Rat(1, 20)
         ELSE RZero
    ELSE RZero

RecencyPart(record, now) ==
    IF DateTruthy(record.date) /\ record.date.kind = "ymd"
    THEN IF DaysOld(record.date, now) < 365 THEN Rat(1, 10)
         ELSE IF DaysOld(record.date, now) < 1095 THEN Rat(1, 20)
         ELSE RZero
    ELSE RZero

CompletenessPart(record) ==
    LET completeness_score ==
          RAdd(RAdd(IF record.total > 0 THEN Rat(5, 10) ELSE RZero,
                    IF record.weight_class > 0 THEN Rat(3, 10) ELSE RZero),
               IF DateTruthy(record.date) THEN Rat(2, 10) ELSE RZero)
    IN RMul(completeness_score, Rat(1, 10))

_calculate_comprehensive_match_score(record, name_similarity, current_weight_class, meet_name, now) ==
    RAdd(RAdd(RAdd(RMul(name_similarity, Rat(1, 2)),
                   WeightPart(record, current_weight_class)),
              RecencyPart(record, now)),
         CompletenessPart(record))

(***************************************************************************)
(* Candidate Finder                                                         *)
(***************************************************************************)

Candidate(record, score, name_similarity, match_type) ==
    [record |-> record, score |-> score, name_similarity |-> name_similarity,
     match_type |-> match_type]

\* list.sort(key=score, reverse=True) is stable: c goes behind every element
\* whose score is at least its own
RECURSIVE InsertDesc(_, _)
InsertDesc(sorted, c) ==
    IF sorted = <<>> THEN <<c>>
    ELSE IF RLess(Head(sorted).score, c.score) THEN <<c>> \o sorted
    ELSE <<Head(sorted)>> \o InsertDesc(Tail(sorted), c)

RECURSIVE SortByScoreDesc(_, _)
SortByScoreDesc(todo, sorted) ==
    IF todo = <<>> THEN sorted
    ELSE SortByScoreDesc(Tail(todo), InsertDesc(sorted, Head(todo)))

\* candidates[-n:]: the slice taken from the end
Take_FromEnd(s, n) ==
    SubSeq(s, IF Len(s) < n THEN 1 ELSE Len(s) - n + 1, Len(s))

\* candidates[:n]
Take(s, n) == SubSeq(s, 1, IF Len(s) < n THEN Len(s) ELSE n)

\* default of max_candidates
DefaultMaxCandidates == 10

\* the exact_duplicate candidates of one key, in record order
ScoreDuplicates(recs, current_weight_class, meet_name, now) ==
    [i \in 1..Len(recs) |->
        Candidate(recs[i],
                  _calculate_comprehensive_match_score(
                      recs[i], ROne, current_weight_class, meet_name, now),
                  ROne, "exact_duplicate")]

\* the prefix_match candidates scored like exact ones, at similarity 1
ScorePrefixKey_FullSimilarity(recs, search_name, indexed_name, current_weight_class, meet_name, now) ==
    [i \in 1..Len(recs) |->
        Candidate(recs[i],
                  _calculate_comprehensive_match_score(
                      recs[i], ROne, current_weight_class, meet_name, now),
                  ROne, "prefix_match")]

\* the prefix_match candidates of one matching key, in record order
ScorePrefixKey(recs, search_name, indexed_name, current_weight_class, meet_name, now) ==
    LET name_similarity == Rat(Len(search_name), Len(indexed_name))
    IN [i \in 1..Len(recs) |->
          Candidate(recs[i],
                    _calculate_comprehensive_match_score(
                        recs[i], name_similarity, current_weight_class,
                        meet_name, now),
                    name_similarity, "prefix_match")]

RECURSIVE ScorePrefixKeys(_, _, _, _, _, _)
ScorePrefixKeys(idx, matching_names, search_name, current_weight_class, meet_name, now) ==
    IF matching_names = <<>> THEN <<>>
    ELSE ScorePrefixKey(Get(idx, Head(matching_names)), search_name,
                        Head(matching_names), current_weight_class,
                        meet_name, now)
         \o ScorePrefixKeys(idx, Tail(matching_names), search_name,
                            current_weight_class, meet_name, now)

\* the keys that start like search_name: a test of the first letter only
MatchingNames_FirstLetter(idx, search_name) ==
    SelectSeq(Keys(idx),
              LAMBDA k : search_name = <<>>
                           \/ (k # <<>> /\ Head(k) = Head(search_name)))

\* [k for k in self._name_index.keys() if k.startswith(search_name)]
MatchingNames(idx, search_name) ==
    SelectSeq(Keys(idx), LAMBDA k : StartsWith(k, search_name))

\* the loop with no short cut for a key of one record: it is scored like the
\* records of a key of several
RECURSIVE FindFrom_ScoreSingles(_, _, _, _, _, _)
FindFrom_ScoreSingles(idx, search_names, current_weight_class, meet_name, max_candidates, now) ==
    IF search_names = <<>> THEN <<>>
    ELSE LET search_name == Head(search_names)
         IN IF HasKey(idx, search_name)
            THEN Take(SortByScoreDesc(
                          ScoreDuplicates(Get(idx, search_name),
                              current_weight_class, meet_name, now),
                          <<>>),
                      max_candidates)
            ELSE LET matching_names == MatchingNames(idx, search_name)
                 IN IF matching_names # <<>>
                    THEN Take(SortByScoreDesc(
                                  ScorePrefixKeys(idx, matching_names,
                                      search_name, current_weight_class,
                                      meet_name, now),
                                  <<>>),
                              max_candidates)
                    ELSE FindFrom_ScoreSingles(idx, Tail(search_names),
                                  current_weight_class, meet_name,
                                  max_candidates, now)

\* the keys of every record when nothing matches: a fuzzy fallback
RECURSIVE FindFrom_Fallback(_, _, _, _, _, _)
FindFrom_Fallback(idx, search_names, current_weight_class, meet_name, max_candidates, now) ==
    IF search_names = <<>>
    THEN Take(SortByScoreDesc(
                  ScorePrefixKeys(idx, Keys(idx), <<>>, current_weight_class,
                                  meet_name, now),
                  <<>>),
              max_candidates)
    ELSE LET search_name == Head(search_names)
         IN IF HasKey(idx, search_name)
            THEN LET exact_records == Get(idx, search_name)
                 IN IF Len(exact_records) = 1
                    THEN <<Candidate(exact_records[1], ROne, ROne, "exact")>>
                    ELSE Take(SortByScoreDesc(
                                  ScoreDuplicates(exact_records,
                                      current_weight_class, meet_name, now),
                                  <<>>),
                              max_candidates)
            ELSE LET matching_names == MatchingNames(idx, search_name)
                 IN IF matching_names # <<>>
                    THEN Take(SortByScoreDesc(
                                  ScorePrefixKeys(idx, matching_names,
                                      search_name, current_weight_class,
                                      meet_name, now),
                                  <<>>),
                              max_candidates)
                    ELSE FindFrom_Fallback(idx, Tail(search_names),
                                  current_weight_class, meet_name,
                                  max_candidates, now)

\* the loop over the normalization variants, on a loaded index
RECURSIVE FindFrom(_, _, _, _, _, _)
FindFrom(idx, search_names, current_weight_class, meet_name, max_candidates, now) ==
    IF search_names = <<>> THEN <<>>
    ELSE LET search_name == Head(search_names)
         IN IF HasKey(idx, search_name)
            THEN LET exact_records == Get(idx, search_name)
                 IN IF Len(exact_records) = 1
                    THEN <<Candidate(exact_records[1], ROne, ROne, "exact")>>
                    ELSE Take(SortByScoreDesc(
                                  ScoreDuplicates(exact_records,
                                      current_weight_class, meet_name, now),
                                  <<>>),
                              max_candidates)
            ELSE LET matching_names == MatchingNames(idx, search_name)
                 IN IF matching_names # <<>>
                    THEN Take(SortByScoreDesc(
                                  ScorePrefixKeys(idx, matching_names,
                                      search_name, current_weight_class,
                                      meet_name, now),
                                  <<>>),
                              max_candidates)
                    ELSE FindFrom(idx, Tail(search_names),
                                  current_weight_class, meet_name,
                                  max_candidates, now)

\* find_lifter_candidates once the index is loaded
FindCandidates(idx, name, current_weight_class, meet_name, max_candidates, now) ==
    FindFrom(idx, _try_multiple_normalizations(name), current_weight_class,
             meet_name, max_candidates, now)

(***************************************************************************)
(* Resolver                                                                 *)
(***************************************************************************)

\* str(x) of a float field, and the literal '0' of the not-found payloads
StrOf(x) == [lit |-> FALSE, v |-> x]
Lit0 == [lit |-> TRUE, v |-> 0]

Alternative(candidate) ==
    [name         |-> candidate.record.original_name,
     date         |-> candidate.record.date,
     weight_class |-> candidate.record.weight_class,
     total        |-> candidate.record.total,
     score        |-> candidate.score]

\* the envelope: confidence "" and warning "" stand for an absent key
Envelope(found, reason, confidence, total, dotscore, index, alternatives, warning, count) ==
    [found |-> found, reason |-> reason, confidence |-> confidence,
     total |-> total, dotscore |-> dotscore, index |-> index,
     alternatives |-> alternatives, warning |-> warning, count |-> count]

NoMatches == Envelope(FALSE, "no_matches", "", Lit0, Lit0, -1, <<>>, "", 0)

Found(confidence, record, alternatives, warning, count) ==
    Envelope(TRUE, "", confidence, StrOf(record.total),
             StrOf(record.dotscore), record.index, alternatives, warning,
             count)

\* candidates[0:3]: the slice taken from the best candidate on
NextThree_FromBest(candidates) ==
    SubSeq(candidates, 1, IF Len(candidates) < 3 THEN Len(candidates) ELSE 3)

\* candidates[1:4]
NextThree(candidates) ==
    SubSeq(candidates, 2, IF Len(candidates) < 4 THEN Len(candidates) ELSE 4)

\* the tiers taken from the best score alone, however many candidates
Resolve_ByBestScore(candidates) ==
    IF candidates = <<>> THEN NoMatches
    ELSE IF RLess(Rat(9, 10), candidates[1].score)
         THEN Found("high", candidates[1].record, <<>>, "", 0)
    ELSE IF RLess(Rat(7, 10), candidates[1].score)
         THEN Found("medium", candidates[1].record, <<>>,
                    "Possible match, verify accuracy", 0)
    ELSE LET alts == NextThree(candidates)
         IN Found("low", candidates[1].record,
                  [i \in 1..Len(alts) |-> Alternative(alts[i])],
                  "Multiple matches found", Len(candidates))

\* the tiers with several candidates reported as no match
Resolve_AmbiguousNotFound(candidates) ==
    IF candidates = <<>> THEN NoMatches
    ELSE IF Len(candidates) = 1 /\ RLess(Rat(9, 10), candidates[1].score)
         THEN Found("high", candidates[1].record, <<>>, "", 0)
    ELSE IF Len(candidates) = 1 /\ RLess(Rat(7, 10), candidates[1].score)
         THEN Found("medium", candidates[1].record, <<>>,
                    "Possible match, verify accuracy", 0)
    ELSE IF Len(candidates) = 1
         THEN Found("low", candidates[1].record, <<>>,
                    "Multiple matches found", Len(candidates))
    ELSE NoMatches

\* the tiers with medium confidence from a score above 0.5
Resolve_MediumAboveHalf(candidates) ==
    IF candidates = <<>> THEN NoMatches
    ELSE IF Len(candidates) = 1 /\ RLess(Rat(9, 10), candidates[1].score)
         THEN Found("high", candidates[1].record, <<>>, "", 0)
    ELSE IF Len(candidates) = 1 /\ RLess(Rat(5, 10), candidates[1].score)
         THEN Found("medium", candidates[1].record, <<>>,
                    "Possible match, verify accuracy", 0)
    ELSE LET alts == NextThree(candidates)
         IN Found("low", candidates[1].record,
                  [i \in 1..Len(alts) |-> Alternative(alts[i])],
                  "Multiple matches found", Len(candidates))

\* get_lifter_stats_robust on the candidates found
Resolve(candidates) ==
    IF candidates = <<>> THEN NoMatches
    ELSE IF Len(candidates) = 1 /\ RLess(Rat(9, 10), candidates[1].score)
         THEN Found("high", candidates[1].record, <<>>, "", 0)
    ELSE IF Len(candidates) = 1 /\ RLess(Rat(7, 10), candidates[1].score)
         THEN Found("medium", candidates[1].record, <<>>,
                    "Possible match, verify accuracy", 0)
    ELSE LET alts == NextThree(candidates)
         IN Found("low", candidates[1].record,
                  [i \in 1..Len(alts) |-> Alternative(alts[i])],
                  "Multiple matches found", Len(candidates))

\* _get_default_response
_get_default_response ==
    Envelope(FALSE, "", "", Lit0, Lit0, -1, <<>>, "", 0)

\* the batch lookup taking records[-1], the last record of the key
RECURSIVE BatchFrom_LastRecord(_, _)
BatchFrom_LastRecord(idx, search_names) ==
    IF search_names = <<>> THEN _get_default_response
    ELSE IF HasKey(idx, Head(search_names))
            /\ Get(idx, Head(search_names)) # <<>>
         THEN LET records == Get(idx, Head(search_names))
              IN Found("exact", records[Len(records)], <<>>, "", 0)
         ELSE BatchFrom_LastRecord(idx, Tail(search_names))

\* get_lifter_stats_batch for one name, on a loaded index
RECURSIVE BatchFrom(_, _)
BatchFrom(idx, search_names) ==
    IF search_names = <<>> THEN _get_default_response
    ELSE IF HasKey(idx, Head(search_names))
            /\ Get(idx, Head(search_names)) # <<>>
         THEN Found("exact", Get(idx, Head(search_names))[1], <<>>, "", 0)
         ELSE BatchFrom(idx, Tail(search_names))

BatchOne(idx, name) == BatchFrom(idx, _try_multiple_normalizations(name))

(***************************************************************************)
(* The remote archive                                                       *)
(***************************************************************************)

\* remote versions 1..NumVersions; the clock runs MaxTicks ticks
NumVersions == 2
MaxTicks == 2

\* timedelta(hours=24)
UpdateIntervalHours == 24

\* one tick of the model's clock
TickHours == UpdateIntervalHours

\* the rows the remote CSV grows by, version after version
RowPool ==
    << Row(<<"a", " ", "b">>, Num(90), Num(500), DateAgo(100), Num(300)),
       Row(<<"A", "b">>, Num(82), Num(450), DateAgo(400), Num(280)),
       Row(<<"a", "b", "b">>, NotNum, Num(0), NoDate, Num(0)),
       Row(<<"b", ",", "a">>, Num(83), Num(400), BadDate, Num(250)),
       Row(<<"b", "a", "a">>, Num(100), Num(600), DateAgo(2000), Num(350)),
       Row(<<"b", "b", "a", "b", "a", "b">>, Num(90), Num(500), DateAgo(100),
           Num(310)),
       Row(<<" ", "a", "B">>, Num(95), Num(0), DateAgo(1000), Num(0)) >>

\* the table of remote version v
RemoteDataset(v) == SubSeq(RowPool, 1, IF v + 1 < Len(RowPool) THEN v + 1 ELSE Len(RowPool))

\* the indexes of the remote tables, built once
IndexTable == [v \in 1..Len(RowPool) |-> GroupIndex(RemoteDataset(v))]

\* GroupIndex, looked up in IndexTable for a remote table
BuildIndex(ds) ==
    IF \E v \in 1..Len(RowPool) : RemoteDataset(v) = ds
    THEN IndexTable[CHOOSE v \in 1..Len(RowPool) : RemoteDataset(v) = ds]
    ELSE GroupIndex(ds)

\* the remote version a table was fetched from
VersionOf(ds) == CHOOSE v \in 1..Len(RowPool) : RemoteDataset(v) = ds

\* f"{etag}_{last_modified}" of remote version v; NoHash is the '' that
\* _get_file_hash returns when the HEAD request fails
Fingerprint(v) == v
NoHash == 0

(***************************************************************************)
(* Files of the cache directory                                             *)
(***************************************************************************)

Absent == [st |-> "absent", val |-> <<>>]
Corrupt == [st |-> "corrupt", val |-> <<>>]
FileOf(v) == [st |-> "ok", val |-> v]

\* pickle.dump of a dict: its items, key and value, in insertion order
ItemsOf(idx) ==
    [i \in 1..Len(idx.entries) |-> <<idx.entries[i].key, idx.entries[i].recs>>]

\* pickle.load of the items: a new dict filled item by item
RECURSIVE DictOf(_, _)
DictOf(items, idx) ==
    IF items = <<>> THEN idx
    ELSE DictOf(Tail(items), Put(idx, Head(items)[1], Head(items)[2]))

\* a pickle that keeps the first record of every key
_save_index_fast_FirstRecords(idx) ==
    FileOf([tag |-> idx.tag,
            items |-> [i \in 1..Len(idx.entries) |->
                         <<idx.entries[i].key,
                           SubSeq(idx.entries[i].recs, 1, 1)>>]])

\* the file _save_index_fast writes: the pickle of a dict, or of None
_save_index_fast(idx) == FileOf([tag |-> idx.tag, items |-> ItemsOf(idx)])

\* the index _load_index_fast reads from a file that unpickles
_load_index_fast(f) ==
    IF f.val.tag = "None" THEN NoneIndex ELSE DictOf(f.val.items, EmptyDict)

\* os.path.exists
Exists(f) == f.st # "absent"

\* metadata.json holds last_update, file_hash, rows (and the column list)
NoMeta == [st |-> "absent", last_update |-> -1, file_hash |-> NoHash, rows |-> 0]
Meta(last_update, file_hash, rows) ==
    [st |-> "ok", last_update |-> last_update, file_hash |-> file_hash,
     rows |-> rows]

\* _load_metadata: {} when the file is missing or unreadable
_load_metadata(metaFile_) == IF metaFile_.st = "ok" THEN metaFile_ ELSE NoMeta

(***************************************************************************)
(* Dataset Store                                                            *)
(***************************************************************************)

\* needs_update with the age test off by one: stale at 24 hours sharp
needs_update_AtInterval(dataFile_, metaFile_, now_, current_hash) ==
    LET metadata == _load_metadata(metaFile_)
    IN IF ~Exists(dataFile_) THEN TRUE
       ELSE IF metadata.last_update # -1
               /\ now_ - metadata.last_update >= UpdateIntervalHours
            THEN TRUE
       ELSE current_hash # metadata.file_hash

\* needs_update; current_hash is what _get_file_hash returns
needs_update(dataFile_, metaFile_, now_, current_hash) ==
    LET metadata == _load_metadata(metaFile_)
    IN IF ~Exists(dataFile_) THEN TRUE
       ELSE IF metadata.last_update # -1
               /\ now_ - metadata.last_update > UpdateIntervalHours
            THEN TRUE
       ELSE current_hash # metadata.file_hash

\* download_data.  outcome is the step that fails ("fetch", "zip", "csv",
\* "write") or "ok"; fetched is the table the GET returned; damage is what a
\* failed to_parquet leaves of the file it writes in place ("kept" if it
\* fails before it opens the file, "removed" if after); head_hash is
\* what the HEAD request after the write returns; meta_outcome is whether
\* _save_metadata, which swallows its errors, has "saved" metadata.json or
\* "kept" the old one
download_data(dataFile_, metaFile_, now_, fetched, outcome, damage, head_hash, meta_outcome) ==
    IF outcome \in {"fetch", "zip", "csv"}
    THEN [ret |-> FALSE, dataFile |-> dataFile_, metaFile |-> metaFile_]
    ELSE IF outcome = "write"
    THEN [ret |-> FALSE,
          dataFile |-> IF damage = "kept" THEN dataFile_ ELSE Absent,
          metaFile |-> metaFile_]
    ELSE [ret |-> TRUE,
          dataFile |-> FileOf(fetched),
          metaFile |-> IF meta_outcome = "saved"
                       THEN Meta(now_, head_hash, Len(fetched))
                       ELSE metaFile_]

\* a returned value or a raised exception
Returned(x) == [raised |-> "", value |-> x]
Raised(e) == [raised |-> e, value |-> FALSE]

NoneData == [tag |-> "None", val |-> <<>>]
DataFrame(ds) == [tag |-> "df", val |-> ds]

\* preprocess_data.  save_outcome is what _save_index_fast, which writes the
\* index file in place, does: "saved", or it raises with the file "unopened"
\* or "truncated"
preprocess_data(dataFile_, pklFile_, data_, index_, save_outcome) ==
    IF data_.tag = "None" /\ ~Exists(dataFile_)
    THEN [out |-> Raised("FileNotFoundError"), data |-> data_,
          index |-> index_, pklFile |-> pklFile_]
    ELSE IF data_.tag = "None" /\ dataFile_.st = "corrupt"
    THEN [out |-> Raised("ParquetError"), data |-> data_,
          index |-> index_, pklFile |-> pklFile_]
    ELSE LET df == IF data_.tag = "None" THEN DataFrame(dataFile_.val) ELSE data_
             built == BuildIndex(df.val)
         IN IF save_outcome = "saved"
            THEN [out |-> Returned(TRUE), data |-> df, index |-> built,
                  pklFile |-> _save_index_fast(built)]
            ELSE [out |-> Raised("OSError"), data |-> df, index |-> built,
                  pklFile |-> IF save_outcome = "unopened" THEN pklFile_
                              ELSE Corrupt]

\* load_data that looks for the file only when no table is in memory yet
load_data_CheckWhenUnloaded(dataFile_, pklFile_, jsonFile_, data_, index_, save_outcome) ==
    IF ~Exists(dataFile_) /\ data_.tag = "None"
    THEN [out |-> Raised("FileNotFoundError"), data |-> data_,
          index |-> index_, pklFile |-> pklFile_]
    ELSE IF pklFile_.st = "ok"
    THEN [out |-> Returned(TRUE), data |-> data_, index |-> _load_index_fast(pklFile_),
          pklFile |-> pklFile_]
    ELSE [out |-> Raised("UnpicklingError"), data |-> data_,
          index |-> index_, pklFile |-> pklFile_]

\* load_data
load_data(dataFile_, pklFile_, jsonFile_, data_, index_, save_outcome) ==
    IF ~Exists(dataFile_)
    THEN [out |-> Raised("FileNotFoundError"), data |-> data_,
          index |-> index_, pklFile |-> pklFile_]
    ELSE IF dataFile_.st = "corrupt"
    THEN [out |-> Raised("ParquetError"), data |-> data_,
          index |-> index_, pklFile |-> pklFile_]
    ELSE LET df == DataFrame(dataFile_.val)
         IN IF pklFile_.st = "corrupt"
            THEN [out |-> Raised("UnpicklingError"), data |-> df,
                  index |-> index_, pklFile |-> pklFile_]
            ELSE IF pklFile_.st = "ok"
            THEN [out |-> Returned(TRUE), data |-> df,
                  index |-> _load_index_fast(pklFile_), pklFile |-> pklFile_]
            ELSE IF jsonFile_.st = "corrupt"
            THEN [out |-> Raised("JSONDecodeError"), data |-> df,
                  index |-> NoneIndex, pklFile |-> pklFile_]
            ELSE IF jsonFile_.st = "ok"
            THEN [out |-> Returned(TRUE), data |-> df,
                  index |-> jsonFile_.val, pklFile |-> pklFile_]
            ELSE preprocess_data(dataFile_, pklFile_, df, NoneIndex,
                                 save_outcome)

\* a lookup that reloads on every call
lazy_load_Always(dataFile_, pklFile_, jsonFile_, data_, index_, save_outcome) ==
    load_data(dataFile_, pklFile_, jsonFile_, data_, index_, save_outcome)

\* `if not self._name_index: self.load_data()` at the head of every lookup
lazy_load(dataFile_, pklFile_, jsonFile_, data_, index_, save_outcome) ==
    IF Falsy(index_)
    THEN load_data(dataFile_, pklFile_, jsonFile_, data_, index_, save_outcome)
    ELSE [out |-> Returned(TRUE), data |-> data_, index |-> index_,
          pklFile |-> pklFile_]

\* get_lifter_stats_batch on a loaded index: a dict keyed by the names
RECURSIVE BatchResults(_, _, _)
BatchResults(idx, names, results) ==
    IF names = <<>> THEN results
    ELSE BatchResults(idx, Tail(names),
                      Put(results, Head(names), BatchOne(idx, Head(names))))

(***************************************************************************)
(* State                                                                    *)
(***************************************************************************)

VARIABLES
    remote,       \* the version the remote archive serves
    now,          \* the wall clock, in hours
    dataFile,     \* openpowerlifting_data.parquet
    metaFile,     \* metadata.json
    pklFile,      \* name_index.pkl
    jsonFile,     \* name_index.json
    _data,        \* self._data
    _name_index,  \* self._name_index
    last,         \* the last call: what it was given and what it returned
    pool          \* the worker pool of process_lifters

store == <<dataFile, metaFile, pklFile, jsonFile>>
memory == <<_data, _name_index>>
vars == <<remote, now, dataFile, metaFile, pklFile, jsonFile, _data,
          _name_index, last, pool>>

\* the record of a call: op and how it ended.  need: what needs_update answered ("" if not asked);
\* head: the fingerprint it fetched; dl: "ok" or "failed" for a download_data
\* made, "" for none; loaded: whether the call ran load_data
\* name, hint, max, cands, env, batch: a lookup's arguments and results
\* which, norm: the variant a normalizer call applied (0: all of them) and
\* the strings it returned
Plain(op, ret) ==
    [op |-> op, ret |-> ret, need |-> "", head |-> NoHash, dl |-> "",
     loaded |-> FALSE, name |-> <<>>, hint |-> 0, max |-> 0, cands |-> <<>>,
     env |-> NoMatches, batch |-> EmptyDict, which |-> 0, norm |-> <<>>]

\* how a call ended: "True", "False", "None", a value, or the exception
RetOf(out) ==
    IF out.raised # "" THEN out.raised
    ELSE IF out.value THEN "True" ELSE "False"

PoolIdle == [phase |-> "idle"]

\* the names and weight-class hints the lookups of Spec are made with
QueryNames == { <<"A", " ", "b">> }
QueryHints == {0}

SaveOutcomes == {"saved", "unopened", "truncated"}

\* __init__ on an empty cache directory (no release of the code writes
\* name_index.json; load_data only reads it)
Init ==
    /\ remote = 1
    /\ now = 0
    /\ dataFile = Absent
    /\ metaFile = NoMeta
    /\ pklFile = Absent
    /\ jsonFile = Absent
    /\ _data = NoneData
    /\ _name_index = EmptyDict
    /\ last = Plain("__init__", "None")
    /\ pool = PoolIdle

(***************************************************************************)
(* The environment                                                          *)
(***************************************************************************)

\* time passes
Tick ==
    /\ now < MaxTicks * TickHours
    /\ now' = now + TickHours
    /\ last' = Plain("env", "None")
    /\ UNCHANGED <<remote, store, memory, pool>>

\* the remote archive publishes its next version
RemoteChange ==
    /\ remote < NumVersions
    /\ remote' = remote + 1
    /\ last' = Plain("env", "None")
    /\ UNCHANGED <<now, store, memory, pool>>

\* the process ends and a new manager is constructed on the same directory
Restart ==
    /\ _data' = NoneData
    /\ _name_index' = EmptyDict
    /\ last' = Plain("__init__", "None")
    /\ UNCHANGED <<remote, now, store, pool>>

\* what a HEAD request to the remote can return
HeadHashes(v) == {NoHash, Fingerprint(v)}

(***************************************************************************)
(* The operations of the data manager                                       *)
(***************************************************************************)

NeedsUpdate ==
    \E current_hash \in HeadHashes(remote) :
        /\ last' = [Plain("needs_update",
                          IF needs_update(dataFile, metaFile, now, current_hash)
                          THEN "True" ELSE "False")
                    EXCEPT !.head = current_hash]
        /\ UNCHANGED <<remote, now, store, memory, pool>>

\* the versions the remote can serve by the time download_data asks for the
\* fingerprint of what it has just fetched
LaterVersions(v) == {w \in {v, v + 1} : w <= NumVersions}

\* the last step of update_if_needed: a download_data that returned, then
\* preprocess_data if it returned True
FinishUpdate(called, d, remote2, save_outcome) ==
    IF d.ret
    THEN LET p == preprocess_data(d.dataFile, pklFile, _data, _name_index,
                                  save_outcome)
         IN /\ remote' = remote2
            /\ dataFile' = d.dataFile
            /\ metaFile' = d.metaFile
            /\ pklFile' = p.pklFile
            /\ _data' = p.data
            /\ _name_index' = p.index
            /\ last' = [called EXCEPT !.dl = "ok", !.ret = RetOf(p.out)]
            /\ UNCHANGED <<now, jsonFile, pool>>
    ELSE /\ dataFile' = d.dataFile
         /\ metaFile' = d.metaFile
         /\ last' = [called EXCEPT !.dl = "failed"]
         /\ UNCHANGED <<remote, now, pklFile, jsonFile, memory, pool>>

UpdateIfNeeded ==
    \E current_hash \in HeadHashes(remote) :
        LET called == [Plain("update_if_needed", "False")
                       EXCEPT !.need = "True"]
        IN IF needs_update(dataFile, metaFile, now, current_hash)
           THEN \/ \E outcome \in {"fetch", "zip", "csv"} :
                     FinishUpdate(called,
                                  download_data(dataFile, metaFile, now,
                                      RemoteDataset(remote), outcome, "kept",
                                      NoHash, "kept"),
                                  remote, "saved")
                \/ \E damage \in {"kept", "removed"} :
                     FinishUpdate(called,
                                  download_data(dataFile, metaFile, now,
                                      RemoteDataset(remote), "write", damage,
                                      NoHash, "kept"),
                                  remote, "saved")
                \/ \E remote2 \in LaterVersions(remote) :
                   \E head_hash \in HeadHashes(remote2),
                      meta_outcome \in {"saved", "kept"},
                      save_outcome \in SaveOutcomes :
                     FinishUpdate(called,
                                  download_data(dataFile, metaFile, now,
                                      RemoteDataset(remote), "ok", "kept",
                                      head_hash, meta_outcome),
                                  remote2, save_outcome)
           ELSE /\ last' = [called EXCEPT !.need = "False"]
                /\ UNCHANGED <<remote, now, store, memory, pool>>

\* the outcomes of _save_index_fast, where load_data gets as far as calling it
SavesOfLoad ==
    IF dataFile.st = "ok" /\ pklFile.st = "absent" /\ jsonFile.st = "absent"
    THEN SaveOutcomes ELSE {"saved"}

SavesOfLazyLoad == IF Falsy(_name_index) THEN SavesOfLoad ELSE {"saved"}

LoadData ==
    \E save_outcome \in SavesOfLoad :
        LET l == load_data(dataFile, pklFile, jsonFile, _data, _name_index,
                           save_outcome)
        IN /\ _data' = l.data
           /\ _name_index' = l.index
           /\ pklFile' = l.pklFile
           /\ last' = [Plain("load_data",
                             IF l.out.raised # "" THEN l.out.raised ELSE "None")
                       EXCEPT !.loaded = TRUE]
           /\ UNCHANGED <<remote, now, dataFile, metaFile, jsonFile, pool>>

\* a lookup `look` on the names `names`: the lazy load, then the search
Lookup(op, names, hints, maxes) ==
    \E name \in names, hint \in hints, max_candidates \in maxes,
       save_outcome \in SavesOfLazyLoad :
        LET l == lazy_load(dataFile, pklFile, jsonFile, _data, _name_index,
                           save_outcome)
            cands == FindCandidates(l.index, name, hint, "", max_candidates,
                                    now)
            called == [Plain(op, "value")
                       EXCEPT !.loaded = Falsy(_name_index), !.name = name,
                              !.hint = hint, !.max = max_candidates]
        IN /\ _data' = l.data
           /\ _name_index' = l.index
           /\ pklFile' = l.pklFile
           /\ last' = IF l.out.raised # ""
                      THEN [called EXCEPT !.ret = l.out.raised]
                      ELSE [called EXCEPT !.cands = cands,
                                          !.env = IF op = "find_lifter_candidates"
                                                  THEN NoMatches
                                                  ELSE Resolve(cands)]
           /\ UNCHANGED <<remote, now, dataFile, metaFile, jsonFile, pool>>

GetLifterStatsRobust ==
    Lookup("get_lifter_stats_robust", QueryNames, QueryHints,
           {DefaultMaxCandidates})

\* the name lists get_lifter_stats_batch is called with
BatchLists == {<<<<"b">>, <<"A", " ", "b">>>>}

\* get_lifter_stats_batch on one of the lists `lists`
Batch(lists) ==
    \E names \in lists, save_outcome \in SavesOfLazyLoad :
        LET l == lazy_load(dataFile, pklFile, jsonFile, _data, _name_index,
                           save_outcome)
            called == [Plain("get_lifter_stats_batch", "value")
                       EXCEPT !.loaded = Falsy(_name_index), !.name = names]
        IN /\ _data' = l.data
           /\ _name_index' = l.index
           /\ pklFile' = l.pklFile
           /\ last' = IF l.out.raised # ""
                      THEN [called EXCEPT !.ret = l.out.raised]
                      ELSE [called EXCEPT
                              !.batch = BatchResults(l.index, names, EmptyDict)]
           /\ UNCHANGED <<remote, now, dataFile, metaFile, jsonFile, pool>>

GetLifterStatsBatch == Batch(BatchLists)

Next ==
    \/ Tick
    \/ RemoteChange
    \/ Restart
    \/ NeedsUpdate
    \/ UpdateIfNeeded
    \/ LoadData
    \/ GetLifterStatsRobust
    \/ GetLifterStatsBatch

Spec == Init /\ [][Next]_vars

(***************************************************************************)
(* Lookups on a loaded manager                                              *)
(***************************************************************************)

\* the tables a manager can have loaded: the runs of consecutive rows
LookupTables ==
    {SubSeq(RowPool, i, j) : i \in 1..Len(RowPool), j \in 1..Len(RowPool)}
        \ {<<>>}

\* the names and weight-class hints of the lookups
LookupNames ==
    { <<>>, <<"A", " ", "b">>, <<"a">>, <<"b", "a">>, <<"b", ",", "a">>,
      <<"b", "b", "a", "b", "a">>, <<"b", "b", "b">>, <<"a", "b", "b">>,
      <<"B", ",", " ", "a">> }
LookupHints == {0, 83, 90, 100}

\* a manager after update_if_needed and load_data, on any of the tables
InitLookup ==
    /\ remote = 1
    /\ now = 0
    /\ \E ds \in LookupTables :
          /\ dataFile = FileOf(ds)
          /\ metaFile = Meta(0, Fingerprint(1), Len(ds))
          /\ pklFile = _save_index_fast(BuildIndex(ds))
          /\ _data = DataFrame(ds)
          /\ _name_index = BuildIndex(ds)
    /\ jsonFile = Absent
    /\ last = [Plain("load_data", "None") EXCEPT !.loaded = TRUE]
    /\ pool = PoolIdle

FindLifterCandidatesAny ==
    Lookup("find_lifter_candidates", LookupNames, LookupHints,
           {1, 2, DefaultMaxCandidates})

GetLifterStatsRobustAny ==
    Lookup("get_lifter_stats_robust", LookupNames, LookupHints,
           {DefaultMaxCandidates})

\* the lists of one or two names
LookupLists ==
    {<<n>> : n \in LookupNames}
        \cup {<<n, m>> : n \in LookupNames, m \in LookupNames}

GetLifterStatsBatchAny == Batch(LookupLists)

\* the lookups; a lookup on a loaded manager changes nothing but `last`, so
\* a behaviour makes one and a second one would start from the same manager
NextLookup ==
    /\ last.op = "load_data"
    /\ \/ FindLifterCandidatesAny
       \/ GetLifterStatsRobustAny
       \/ GetLifterStatsBatchAny

SpecLookup == InitLookup /\ [][NextLookup]_vars

(***************************************************************************)
(* The worker pool of process_lifters                                       *)
(***************************************************************************)

\* max_workers of process_lifters
MaxWorkers == 3
Workers == 1..MaxWorkers

\* lifter_data_list, by the lifter_name_for_url of each entry
Rosters == { <<>>, << <<"A", "b">>, <<"a", "b", "b">>, <<"b", "a">> >> }

\* a worker thread: where it is in _process_single_lifter, the roster entry
\* it works on, the locals of preprocess_data (the frame copied and the
\* groups still to file), the index its search ran on and how it ended
IdleWorker ==
    [pc |-> "idle", task |-> 0, df |-> <<>>, keys |-> <<>>,
     seen |-> NoneIndex, env |-> NoMatches, err |-> ""]

\* process_lifters: the roster, the next entry to hand to a worker, the
\* workers, the competitors list and the entries logged as errors
PoolOf(roster) ==
    [phase |-> "running", roster |-> roster, next |-> 1,
     workers |-> [w \in Workers |-> IdleWorker], competitors |-> <<>>,
     errors |-> {}]

\* main() of the command line program on a cache directory an earlier run
\* left: update_if_needed has returned False without loading anything (the
\* data is up to date, or there is none and the download failed) and
\* process_lifters starts its pool on the roster
InitPool ==
    /\ remote = 1
    /\ now = 0
    /\ \E v \in 0..NumVersions :
          IF v = 0
          THEN dataFile = Absent /\ metaFile = NoMeta /\ pklFile = Absent
          ELSE /\ dataFile = FileOf(RemoteDataset(v))
               /\ metaFile = Meta(0, Fingerprint(v), Len(RemoteDataset(v)))
               /\ pklFile \in {Absent, _save_index_fast(BuildIndex(RemoteDataset(v)))}
    /\ jsonFile = Absent
    /\ _data = NoneData
    /\ _name_index = EmptyDict
    /\ last = [Plain("update_if_needed", "False") EXCEPT !.need = "False"]
    /\ \E roster \in Rosters : pool = PoolOf(roster)

\* worker w moves on
Step(w, wr) == pool' = [pool EXCEPT !.workers[w] = wr]
Fails(w, e) ==
    Step(w, [pool.workers[w] EXCEPT !.pc = "failed", !.err = e])

\* a free worker takes the next submitted entry
Submit(w) ==
    /\ pool.phase = "running"
    /\ pool.workers[w].pc = "idle"
    /\ pool.next <= Len(pool.roster)
    /\ pool' = [pool EXCEPT !.next = @ + 1,
                            !.workers[w] = [IdleWorker EXCEPT
                                              !.pc = "check",
                                              !.task = pool.next]]
    /\ UNCHANGED <<remote, now, store, memory, last>>

\* find_lifter_candidates: `if not self._name_index:`
LazyCheck(w) ==
    /\ pool.workers[w].pc = "check"
    /\ Step(w, [pool.workers[w] EXCEPT
                  !.pc = IF Falsy(_name_index) THEN "load" ELSE "search"])
    /\ UNCHANGED <<remote, now, store, memory, last>>

\* load_data up to the choice of rebuilding: the existence test, read_parquet
\* into self._data, self._name_index = self._load_index_fast()
LoadStep(w) ==
    /\ pool.workers[w].pc = "load"
    /\ IF ~Exists(dataFile)
       THEN Fails(w, "FileNotFoundError") /\ UNCHANGED memory
       ELSE IF dataFile.st = "corrupt"
       THEN Fails(w, "ParquetError") /\ UNCHANGED memory
       ELSE /\ _data' = DataFrame(dataFile.val)
            /\ IF pklFile.st = "corrupt"
               THEN Fails(w, "UnpicklingError") /\ UNCHANGED _name_index
               ELSE LET loaded == IF pklFile.st = "ok"
                                  THEN _load_index_fast(pklFile)
                                  ELSE NoneIndex
                    IN IF loaded.tag # "None"
                       THEN /\ _name_index' = loaded
                            /\ Step(w, [pool.workers[w] EXCEPT !.pc = "search"])
                       ELSE IF jsonFile.st = "corrupt"
                       THEN /\ _name_index' = NoneIndex
                            /\ Fails(w, "JSONDecodeError")
                       ELSE IF jsonFile.st = "ok"
                       THEN /\ _name_index' = jsonFile.val
                            /\ Step(w, [pool.workers[w] EXCEPT !.pc = "search"])
                       ELSE /\ _name_index' = NoneIndex
                            /\ Step(w, [pool.workers[w] EXCEPT
                                          !.pc = "preprocess"])
    /\ UNCHANGED <<remote, now, store, last>>

\* preprocess_data up to its loop: df = self._data.copy(), the key column,
\* self._name_index = {}, the groups
PreprocessStart(w) ==
    /\ pool.workers[w].pc = "preprocess"
    /\ _name_index' = EmptyDict
    /\ Step(w, [pool.workers[w] EXCEPT !.pc = "fill", !.df = _data.val,
                                       !.keys = GroupKeys(_data.val)])
    /\ UNCHANGED <<remote, now, store, _data, last>>

\* one turn of the loop: self._name_index[normalized_name] = records, on
\* whatever self._name_index is by now
PreprocessAdd(w) ==
    LET wr == pool.workers[w]
    IN /\ wr.pc = "fill"
       /\ wr.keys # <<>>
       /\ IF _name_index.tag = "None"
          THEN Fails(w, "TypeError") /\ UNCHANGED _name_index
          ELSE /\ _name_index' = Put(_name_index, Head(wr.keys),
                                     GroupRecords(wr.df, Head(wr.keys)))
               /\ Step(w, [wr EXCEPT !.keys = Tail(wr.keys)])
       /\ UNCHANGED <<remote, now, store, _data, last>>

\* _save_index_fast: pickle.dump(self._name_index), whatever it is by now
SaveIndex(w) ==
    LET wr == pool.workers[w]
    IN /\ wr.pc = "fill"
       /\ wr.keys = <<>>
       /\ pklFile' = _save_index_fast(_name_index)
       /\ Step(w, [wr EXCEPT !.pc = "search", !.df = <<>>])
       /\ UNCHANGED <<remote, now, dataFile, metaFile, jsonFile, memory, last>>

\* the search of find_lifter_candidates and the tiers of
\* get_lifter_stats_robust, on whatever self._name_index is by now
Search(w) ==
    LET wr == pool.workers[w]
    IN /\ wr.pc = "search"
       /\ IF _name_index.tag = "None"
          THEN Fails(w, "TypeError")
          ELSE Step(w, [wr EXCEPT
                          !.pc = "done", !.seen = _name_index,
                          !.env = Resolve(FindCandidates(_name_index,
                                      pool.roster[wr.task], 0, "",
                                      DefaultMaxCandidates, now))])
       /\ UNCHANGED <<remote, now, store, memory, last>>

\* as Append_OnSuccess, but a failed entry is given the not-found result
Append_Always(competitors, task, wr) ==
    Append(competitors,
           [task |-> task, env |-> IF wr.pc = "done" THEN wr.env ELSE NoMatches])

\* the as_completed loop of process_lifters on one finished future: the
\* result is appended; an exception is logged and nothing is appended
Append_OnSuccess(competitors, task, wr) ==
    IF wr.pc = "done"
    THEN Append(competitors, [task |-> task, env |-> wr.env])
    ELSE competitors

Collect(w) ==
    LET wr == pool.workers[w]
    IN /\ wr.pc \in {"done", "failed"}
       /\ pool' = [pool EXCEPT
                     !.competitors = Append_OnSuccess(@, wr.task, wr),
                     !.errors = IF wr.pc = "failed" THEN @ \cup {wr.task}
                                ELSE @,
                     !.workers[w] = IdleWorker]
       /\ UNCHANGED <<remote, now, store, memory, last>>

\* every future has completed: process_lifters returns competitors
Finish ==
    /\ pool.phase = "running"
    /\ pool.next > Len(pool.roster)
    /\ \A w \in Workers : pool.workers[w].pc = "idle"
    /\ pool' = [pool EXCEPT !.phase = "done"]
    /\ last' = Plain("process_lifters", "value")
    /\ UNCHANGED <<remote, now, store, memory>>

NextPool ==
    \/ \E w \in Workers : Submit(w)
    \/ \E w \in Workers : LazyCheck(w)
    \/ \E w \in Workers : LoadStep(w)
    \/ \E w \in Workers : PreprocessStart(w)
    \/ \E w \in Workers : PreprocessAdd(w)
    \/ \E w \in Workers : SaveIndex(w)
    \/ \E w \in Workers : Search(w)
    \/ \E w \in Workers : Collect(w)
    \/ Finish

SpecPool == InitPool /\ [][NextPool]_vars

(***************************************************************************)
(* Properties of the Dataset Store and the index, under Spec                *)
(***************************************************************************)

LookupOps ==
    {"find_lifter_candidates", "get_lifter_stats_robust",
     "get_lifter_stats_batch"}

\* C2: a refresh that fails (download_data returns False) leaves the cached
\* dataset, the metadata, the persisted index and the in-memory table and
\* index exactly as they were.
C2_FailedRefreshKeepsCache ==
    [][(last'.op = "update_if_needed" /\ last'.dl = "failed")
         => UNCHANGED <<dataFile, metaFile, pklFile, jsonFile, _data,
                        _name_index>>]_vars

\* C3: whenever a table is cached, the stored fingerprint is the one of the
\* remote version the table was fetched from.
C3_TableAndFingerprintAgree ==
    dataFile.st = "ok"
      => /\ metaFile.st = "ok"
         /\ metaFile.file_hash = Fingerprint(VersionOf(dataFile.val))

\* C4: once update_if_needed has replaced the cached dataset, the index in
\* memory and the persisted index are the ones built from the cached
\* dataset, and so is the index every later lookup uses.
C4_IndexBuiltFromCachedDataset ==
    (/\ dataFile.st = "ok"
     /\ \/ last.op = "update_if_needed" /\ last.ret = "True"
        \/ last.op \in LookupOps /\ last.ret = "value")
      => /\ _name_index = BuildIndex(dataFile.val)
         /\ pklFile.st = "ok" => _load_index_fast(pklFile) = BuildIndex(dataFile.val)

\* C5: load_data and the lookups never fail on a persisted index that cannot
\* be deserialized.
C5_CorruptIndexNeverFails ==
    last.op \in LookupOps \cup {"load_data"}
      => last.ret \notin {"UnpicklingError", "JSONDecodeError"}

\* the recorded age test of needs_update
StaleByAge ==
    /\ metaFile.st = "ok"
    /\ now - metaFile.last_update > UpdateIntervalHours

\* the fingerprint the cache records ('' when it records none)
CachedHash == IF metaFile.st = "ok" THEN metaFile.file_hash ELSE NoHash

\* C6 as claimed: needs_update is true exactly when no dataset is cached, or
\* more than 24 hours have passed, or the remote's fingerprint differs from
\* the cached one; a fingerprint that cannot be fetched is no difference.
C6_NeedsUpdateByRemoteFingerprint ==
    last.op = "needs_update"
      => (last.ret = "True"
            <=> \/ ~Exists(dataFile)
                \/ StaleByAge
                \/ (last.head # NoHash /\ last.head # CachedHash))

\* C6 as amended: needs_update is true exactly when no dataset is cached, or
\* a recorded last update is more than 24 hours old, or the fingerprint it
\* fetched, '' when the fetch failed, differs from the recorded one, '' when
\* none is recorded.
C6_NeedsUpdateByFetchedFingerprint ==
    last.op = "needs_update"
      => (last.ret = "True"
            <=> \/ ~Exists(dataFile)
                \/ StaleByAge
                \/ last.head # CachedHash)

\* needs_update asked at 24 hours sharp, and again with the fetch failing
C6_Witness ==
    /\ last.op = "needs_update"
    /\ Exists(dataFile)
    /\ metaFile.st = "ok"
    /\ now - metaFile.last_update = UpdateIntervalHours
    /\ last.head = NoHash
    /\ CachedHash # NoHash
    /\ last.ret = "True"

\* C7: load_data fails with the dataset-missing error (FileNotFoundError)
\* exactly when no cached dataset file exists.
C7_LoadFailsIffDatasetMissing ==
    last.op = "load_data"
      => (last.ret = "FileNotFoundError" <=> ~Exists(dataFile))

\* load_data has succeeded on the cache a refresh has written
C7_Witness ==
    /\ last.op = "load_data"
    /\ last.ret = "None"
    /\ dataFile.st = "ok"
    /\ _data = DataFrame(dataFile.val)

\* C9 as claimed: a lookup leaves the cached dataset, the metadata, the
\* persisted index and the in-memory table and index unchanged, whatever the
\* state it is made in.
C9_LookupsChangeNothing ==
    [][last'.op \in LookupOps
         => UNCHANGED <<dataFile, metaFile, pklFile, jsonFile, _data,
                        _name_index>>]_vars

\* C9 as amended: a lookup never changes the cached dataset or the metadata,
\* and changes nothing at all when the in-memory index is non-empty; on an
\* empty (or None) index it first runs load_data.
C9_LookupsReadOnlyOnceLoaded ==
    [][last'.op \in LookupOps
         => /\ UNCHANGED <<dataFile, metaFile, jsonFile>>
            /\ ~Falsy(_name_index)
                 => UNCHANGED <<pklFile, _data, _name_index>>]_vars

\* a lookup answered from an index that was already in memory, while the
\* cache holds a newer dataset than the one in memory
C9_Witness ==
    /\ last.op = "get_lifter_stats_robust"
    /\ last.ret = "value"
    /\ ~last.loaded
    /\ dataFile.st = "ok"
    /\ _data # DataFrame(dataFile.val)

(***************************************************************************)
(* Properties of the worker pool, under SpecPool                            *)
(***************************************************************************)

\* the keys a lookup of `name` tries
KeysTried(name) ==
    {_try_multiple_normalizations(name)[i] :
        i \in 1..Len(_try_multiple_normalizations(name))}

\* C1: a lookup that runs while another worker loads or rebuilds the index
\* searches the complete index of the cached dataset, never a None, empty or
\* partly filled one, and neither fails nor reports not-found for a name that
\* is a key of that index.
C1_LookupsSeeWholeIndex ==
    dataFile.st = "ok" =>
      \A w \in Workers :
        LET wr == pool.workers[w]
            whole == BuildIndex(dataFile.val)
        IN /\ wr.pc = "done" => wr.seen = whole
           /\ (/\ wr.pc \in {"done", "failed"}
               /\ KeysTried(pool.roster[wr.task]) \cap KeySet(whole) # {})
                 => wr.pc = "done" /\ wr.env.found

\* the roster entries that have a result in competitors
Answered == {pool.competitors[i].task : i \in 1..Len(pool.competitors)}

\* C8 as claimed: when process_lifters returns, competitors holds one result
\* for every roster entry, a not-found result for each entry whose processing
\* failed.
C8_OneResultPerName ==
    pool.phase = "done" =>
      /\ Len(pool.competitors) = Len(pool.roster)
      /\ \A t \in pool.errors :
           \E i \in 1..Len(pool.competitors) :
              /\ pool.competitors[i].task = t
              /\ ~pool.competitors[i].env.found

\* C8 as amended: when process_lifters returns, every roster entry has been
\* processed; competitors holds exactly one result for each entry whose
\* processing did not raise and none for an entry whose processing raised.
C8_OneResultPerEntryNotFailed ==
    pool.phase = "done" =>
      /\ Answered \cup pool.errors = 1..Len(pool.roster)
      /\ Answered \cap pool.errors = {}
      /\ Len(pool.competitors) = Cardinality(Answered)

\* process_lifters has returned with one entry failed and another answered
C8_Witness ==
    /\ pool.phase = "done"
    /\ pool.errors # {}
    /\ pool.competitors # <<>>

(***************************************************************************)
(* Properties of the resolver, under SpecLookup                             *)
(***************************************************************************)

\* C10: get_lifter_stats_robust answers high exactly for one candidate with
\* score > 0.9, medium (with the verification warning) exactly for one
\* candidate with 0.7 < score <= 0.9, not-found exactly for no candidate and
\* low in every other case.
C10_ResolverTiers ==
    (last.op = "get_lifter_stats_robust" /\ last.ret = "value") =>
      LET c == last.cands
          e == last.env
          one == Len(c) = 1
      IN /\ ~e.found <=> c = <<>>
         /\ ~e.found => e.reason = "no_matches"
         /\ (e.found /\ e.confidence = "high")
              <=> (one /\ RLess(Rat(9, 10), c[1].score))
         /\ (e.found /\ e.confidence = "medium")
              <=> (one /\ RLess(Rat(7, 10), c[1].score)
                       /\ RLeq(c[1].score, Rat(9, 10)))
         /\ (e.found /\ e.confidence = "medium")
              => e.warning = "Possible match, verify accuracy"
         /\ (e.found /\ e.confidence = "low")
              <=> (Len(c) >= 2
                     \/ (one /\ RLeq(c[1].score, Rat(7, 10))))

\* a single prefix candidate answered with medium confidence
C10_Witness ==
    /\ last.op = "get_lifter_stats_robust"
    /\ last.env.found
    /\ last.env.confidence = "medium"
    /\ Len(last.cands) = 1
    /\ last.cands[1].match_type = "prefix_match"

\* a robust lookup that returned
Resolved == last.op = "get_lifter_stats_robust" /\ last.ret = "value"

\* the smaller of two numbers
Min(a, b) == IF a < b THEN a ELSE b

\* C11: a low-confidence result carries a best-scoring candidate as its main
\* record, lists as alternatives the next candidates in non-increasing score
\* order, exactly min(3, n - 1) of them for n candidates, and its warning
\* states the count n.
C11_LowConfidenceAlternatives ==
    (Resolved /\ last.env.found /\ last.env.confidence = "low") =>
      LET c == last.cands
          e == last.env
          n == Len(last.cands)
      IN /\ e.index = c[1].record.index
         /\ e.total = StrOf(c[1].record.total)
         /\ \A i \in 1..n : RLeq(c[i].score, c[1].score)
         /\ Len(e.alternatives) = Min(3, n - 1)
         /\ \A i \in 1..Len(e.alternatives) :
              /\ e.alternatives[i].name = c[i + 1].record.original_name
              /\ e.alternatives[i].score = c[i + 1].score
              /\ e.alternatives[i].total = c[i + 1].record.total
              /\ RLeq(e.alternatives[i].score, c[1].score)
              /\ i > 1 => RLeq(e.alternatives[i].score,
                               e.alternatives[i - 1].score)
              /\ \A j \in (Len(e.alternatives) + 2)..n :
                   RLeq(c[j].score, e.alternatives[i].score)
         /\ e.warning = "Multiple matches found"
         /\ e.count = n

\* a low-confidence answer chosen among five or more candidates of different
\* scores: three alternatives, the others left out
C11_Witness ==
    /\ Resolved
    /\ last.env.confidence = "low"
    /\ Len(last.cands) >= 5
    /\ Len(last.env.alternatives) = 3
    /\ RLess(last.cands[5].score, last.cands[2].score)

(***************************************************************************)
(* Properties of the candidate finder, under SpecLookup                     *)
(***************************************************************************)

\* a find_lifter_candidates that returned, called directly or by
\* get_lifter_stats_robust
Finds ==
    /\ last.op \in {"find_lifter_candidates", "get_lifter_stats_robust"}
    /\ last.ret = "value"

\* the three strategies for the name looked up, in the order of the code
Tried == <<Variant1(last.name), Variant2(last.name), Variant3(last.name)>>

\* the index keys that start with v, and whether v has any hit
PrefixKeys(v) == {k \in KeySet(_name_index) : StartsWith(k, v)}
HitsAt(v) == HasKey(_name_index, v) \/ PrefixKeys(v) # {}

\* the first strategy with a hit, 0 if none has one
FirstHit ==
    IF \E i \in 1..3 : HitsAt(Tried[i])
    THEN CHOOSE i \in 1..3 :
            HitsAt(Tried[i]) /\ \A j \in 1..(i - 1) : ~HitsAt(Tried[j])
    ELSE 0

\* the canonical name the search settles on
Canonical == Tried[FirstHit]

\* the key a record is filed under
KeyOfRecord(record) == IndexKeyOf(record.original_name)

\* the Scorer's score of a record for the lookup made
ScoreOf(record, name_similarity) ==
    _calculate_comprehensive_match_score(record, name_similarity, last.hint,
                                         "", now)

\* candidates sorted by non-increasing score, no record twice
SortedDistinct(c) ==
    /\ \A i \in 1..Len(c) : \A j \in 1..Len(c) :
          i < j => /\ RLeq(c[j].score, c[i].score)
                   /\ c[i].record.index # c[j].record.index

\* C12: when the canonical name is a key of exactly one record, the finder
\* returns that record alone, as exact with score 1 and name similarity 1,
\* whatever the hint and the record's fields, and the resolver answers with
\* high confidence for it.
C12_SingleExactRecord ==
    (Finds /\ FirstHit # 0 /\ HasKey(_name_index, Canonical)
           /\ Len(Get(_name_index, Canonical)) = 1) =>
      LET record == Get(_name_index, Canonical)[1]
      IN /\ last.cands = << [record |-> record, score |-> ROne,
                             name_similarity |-> ROne,
                             match_type |-> "exact"] >>
         /\ last.op = "get_lifter_stats_robust" =>
              /\ last.env.found
              /\ last.env.confidence = "high"
              /\ last.env.index = record.index
              /\ last.env.total = StrOf(record.total)
              /\ last.env.dotscore = StrOf(record.dotscore)

\* the one record of a key, with no total, no weight class and no date,
\* answered with high confidence under a weight-class hint
C12_Witness ==
    /\ Resolved
    /\ last.hint > 0
    /\ Len(last.cands) = 1
    /\ last.cands[1].match_type = "exact"
    /\ last.cands[1].record.total = 0
    /\ last.cands[1].record.weight_class = 0
    /\ last.env.confidence = "high"

\* C13: when the canonical name is a key of n >= 2 records, the finder
\* returns records of that key only, each exact_duplicate with name
\* similarity 1 and the Scorer's score, in non-increasing score order, the
\* min(n, max_candidates) highest-scoring of them.
C13_ExactDuplicates ==
    (Finds /\ FirstHit # 0 /\ HasKey(_name_index, Canonical)
           /\ Len(Get(_name_index, Canonical)) >= 2) =>
      LET recs == Get(_name_index, Canonical)
          c == last.cands
      IN /\ Len(c) = Min(Len(recs), last.max)
         /\ \A i \in 1..Len(c) :
              /\ \E j \in 1..Len(recs) : c[i].record = recs[j]
              /\ c[i].match_type = "exact_duplicate"
              /\ c[i].name_similarity = ROne
              /\ c[i].score = ScoreOf(c[i].record, ROne)
         /\ SortedDistinct(c)
         /\ \A j \in 1..Len(recs) :
              (\A i \in 1..Len(c) : c[i].record # recs[j])
                => \A i \in 1..Len(c) :
                      RLeq(ScoreOf(recs[j], ROne), c[i].score)

\* three records under the key, the two best returned, the third scoring
\* strictly less
C13_Witness ==
    /\ Finds
    /\ last.max = 2
    /\ Len(last.cands) = 2
    /\ last.cands[1].match_type = "exact_duplicate"
    /\ Len(Get(_name_index, Canonical)) = 3
    /\ \E j \in 1..3 :
          RLess(ScoreOf(Get(_name_index, Canonical)[j], ROne),
                last.cands[2].score)

\* the records of the keys that start with the canonical name: <<key, place>>
PrefixRecords ==
    {<<k, j>> : k \in PrefixKeys(Canonical), j \in 1..Len(RowPool)} \cap
    {kj \in KeySet(_name_index) \X (1..Len(RowPool)) :
        kj[2] <= Len(Get(_name_index, kj[1]))}

\* C14: when the canonical name is no key, the finder returns records of the
\* keys that start with it and of no other key, each prefix_match with name
\* similarity len(name) / len(key) and the Scorer's score, in non-increasing
\* score order, the min(n, max_candidates) highest-scoring of the n there are.
C14_PrefixMatches ==
    (Finds /\ FirstHit # 0 /\ ~HasKey(_name_index, Canonical)) =>
      LET c == last.cands
          SimOf(k) == Rat(Len(Canonical), Len(k))
      IN /\ Len(c) = Min(Cardinality(PrefixRecords), last.max)
         /\ \A i \in 1..Len(c) :
              /\ StartsWith(KeyOfRecord(c[i].record), Canonical)
              /\ \E kj \in PrefixRecords :
                    c[i].record = Get(_name_index, kj[1])[kj[2]]
              /\ c[i].match_type = "prefix_match"
              /\ c[i].name_similarity = SimOf(KeyOfRecord(c[i].record))
              /\ c[i].score = ScoreOf(c[i].record, c[i].name_similarity)
         /\ SortedDistinct(c)
         /\ \A kj \in PrefixRecords :
              LET r == Get(_name_index, kj[1])[kj[2]]
              IN (\A i \in 1..Len(c) : c[i].record # r)
                   => \A i \in 1..Len(c) :
                         RLeq(ScoreOf(r, SimOf(kj[1])), c[i].score)

\* records of two keys that start with the name, in an index that has other
\* keys too, the two best of three or more returned
C14_Witness ==
    /\ Finds
    /\ last.max = 2
    /\ Len(last.cands) = 2
    /\ last.cands[1].match_type = "prefix_match"
    /\ Cardinality(PrefixKeys(Canonical)) >= 2
    /\ Cardinality(PrefixRecords) >= 3
    /\ KeySet(_name_index) # PrefixKeys(Canonical)
    /\ last.name # <<>>

\* C15: the strategies are tried in the order 1, 2, 3 and the search stops at
\* the first with an exact or prefix hit: there are candidates exactly when
\* some strategy has a hit, and all of them come from the first that has.
C15_FirstHitDecides ==
    Finds =>
      /\ last.cands # <<>> <=> FirstHit # 0
      /\ FirstHit # 0 =>
           \A i \in 1..Len(last.cands) :
              LET k == KeyOfRecord(last.cands[i].record)
              IN /\ StartsWith(k, Canonical)
                 /\ HasKey(_name_index, Canonical) => k = Canonical
                 /\ last.cands[i].name_similarity
                      = Rat(Len(Canonical), Len(k))

\* strategy 1 has a prefix hit only and strategy 2 is an exact key: the
\* prefix candidates of strategy 1 are returned
C15_Witness ==
    /\ Finds
    /\ FirstHit = 1
    /\ ~HasKey(_name_index, Tried[1])
    /\ HasKey(_name_index, Tried[2])
    /\ last.cands # <<>>
    /\ \A i \in 1..Len(last.cands) :
          /\ last.cands[i].match_type = "prefix_match"
          /\ KeyOfRecord(last.cands[i].record) # Tried[2]

\* C16: when no strategy has an exact or prefix hit, the finder returns the
\* empty list and the resolver returns the not-found payload (found false,
\* every numeric field '0') as a value.
C16_NotFoundIsAValue ==
    (last.op \in {"find_lifter_candidates", "get_lifter_stats_robust"}
       /\ ~Falsy(_name_index) /\ FirstHit = 0) =>
      /\ last.ret = "value"
      /\ last.cands = <<>>
      /\ last.op = "get_lifter_stats_robust" =>
           /\ ~last.env.found
           /\ last.env.reason = "no_matches"
           /\ last.env.total = Lit0
           /\ last.env.dotscore = Lit0
           /\ last.env.alternatives = <<>>

\* a name with three different strategies, none with a hit, reported not
\* found
C16_Witness ==
    /\ Resolved
    /\ FirstHit = 0
    /\ Cardinality({Tried[1], Tried[2], Tried[3]}) = 3
    /\ ~last.env.found
    /\ ~Falsy(_name_index)

\* a get_lifter_stats_batch that returned
Batched == last.op = "get_lifter_stats_batch" /\ last.ret = "value"

\* the strategies of a name that are index keys, by their place 1..3
ExactPlaces(name) ==
    {i \in 1..3 :
        HasKey(_name_index,
               <<Variant1(name), Variant2(name), Variant3(name)>>[i])}

\* the first strategy of a name that is an index key
FirstExactKey(name) ==
    LET i == CHOOSE i \in ExactPlaces(name) :
                \A j \in ExactPlaces(name) : i <= j
    IN <<Variant1(name), Variant2(name), Variant3(name)>>[i]

\* C17: get_lifter_stats_batch answers every name of the list: with the first
\* record of the first strategy that is an index key, confidence exact, when
\* there is one, and with the not-found payload, every numeric field '0',
\* when none is a key, prefix hits or not.
C17_BatchFirstExactRecord ==
    Batched =>
      /\ KeySet(last.batch) = {last.name[i] : i \in 1..Len(last.name)}
      /\ \A i \in 1..Len(last.name) :
            LET name == last.name[i]
                result == Get(last.batch, name)
            IN IF ExactPlaces(name) # {}
               THEN LET record == Get(_name_index, FirstExactKey(name))[1]
                    IN /\ result.found
                       /\ result.confidence = "exact"
                       /\ result.index = record.index
                       /\ result.total = StrOf(record.total)
                       /\ result.dotscore = StrOf(record.dotscore)
               ELSE /\ ~result.found
                    /\ result.total = Lit0
                    /\ result.dotscore = Lit0

\* a list of a name found at its second strategy and of a name that only has
\* prefix hits
C17_Witness ==
    /\ Batched
    /\ \E i \in 1..Len(last.name) :
          /\ ExactPlaces(last.name[i]) # {}
          /\ 1 \notin ExactPlaces(last.name[i])
          /\ Get(last.batch, last.name[i]).found
    /\ \E i \in 1..Len(last.name) :
          /\ ExactPlaces(last.name[i]) = {}
          /\ \E k \in KeySet(_name_index) :
                StartsWith(k, Variant1(last.name[i]))
          /\ ~Get(last.batch, last.name[i]).found

(***************************************************************************)
(* The index builder on any table                                           *)
(***************************************************************************)

\* the longest table built
MaxRows == 3

\* the rows of the tables: names that differ in case and spaces only, a name
\* with a comma, a name of one space, a row with no name
BuildRows ==
    { Row(<<"a", " ", "b">>, Num(90), Num(500), DateAgo(100), Num(300)),
      Row(<<" ", "a", "B", " ">>, Num(82), Num(450), DateAgo(400), Num(280)),
      Row(<<"b", ",", "a">>, NotNum, Num(400), BadDate, Num(250)),
      Row(<<" ">>, Num(100), Num(0), NoDate, Num(0)),
      Row(NoneStr, Num(90), Num(600), DateAgo(2000), Num(350)) }

RECURSIVE TablesOf(_)
TablesOf(n) ==
    IF n = 0 THEN {<<>>}
    ELSE {Append(t, r) : t \in TablesOf(n - 1), r \in BuildRows}

BuildTables == UNION {TablesOf(n) : n \in 1..MaxRows}

\* a new manager on a cache directory that holds a downloaded table only
InitBuild ==
    /\ remote = 1
    /\ now = 0
    /\ \E ds \in BuildTables :
          /\ dataFile = FileOf(ds)
          /\ metaFile = Meta(0, Fingerprint(1), Len(ds))
    /\ pklFile = Absent
    /\ jsonFile = Absent
    /\ _data = NoneData
    /\ _name_index = EmptyDict
    /\ last = Plain("__init__", "None")
    /\ pool = PoolIdle

NextBuild == LoadData \/ Restart

SpecBuild == InitBuild /\ [][NextBuild]_vars

\* str.strip().str.replace(' ', '').str.lower(), written out
CanonicalFormOf(name) ==
    LET inner == SelectSeq(Strip(name), LAMBDA c : c # " ")
    IN [i \in 1..Len(inner) |-> Lower(inner[i])]

\* the places <<key, j>> of the index where the record of row i is filed
PlacesOf(idx, i) ==
    {kj \in KeySet(idx) \X (1..MaxRows + 1) :
        /\ kj[2] <= Len(Get(idx, kj[1]))
        /\ Get(idx, kj[1])[kj[2]].index = i - 1}

\* C18: in an index built by preprocess_data every record under key K has a
\* display name whose canonical form (stripped, spaces removed, lowercased)
\* is K, every row of the table with a name is filed exactly once, a row with
\* no name nowhere, and the records of a key are in the order of their rows.
C18_IndexGroupsBySourceOrder ==
    ~Falsy(_name_index) =>
      LET ds == dataFile.val
          idx == _name_index
      IN /\ \A k \in KeySet(idx) :
              LET recs == Get(idx, k)
              IN /\ recs # <<>>
                 /\ \A j \in 1..Len(recs) :
                       /\ CanonicalFormOf(recs[j].original_name) = k
                       /\ recs[j].index \in 0..(Len(ds) - 1)
                       /\ recs[j].original_name = ds[recs[j].index + 1].Name
                       /\ recs[j].total = ToNumeric(ds[recs[j].index + 1].TotalKg)
                 /\ \A j1 \in 1..Len(recs) : \A j2 \in 1..Len(recs) :
                       j1 < j2 => recs[j1].index < recs[j2].index
         /\ \A i \in 1..Len(ds) :
              Cardinality(PlacesOf(idx, i))
                 = IF ds[i].Name = NoneStr THEN 0 ELSE 1

\* two rows of one key with different display names around a row with no
\* name, in an index load_data has built and saved
C18_Witness ==
    /\ last.op = "load_data"
    /\ last.ret = "None"
    /\ \E k \in KeySet(_name_index) :
          LET recs == Get(_name_index, k)
          IN /\ Len(recs) = 2
             /\ recs[2].index = recs[1].index + 2
             /\ recs[1].original_name # recs[2].original_name
             /\ dataFile.val[recs[1].index + 2].Name = NoneStr

(***************************************************************************)
(* The normalizer on any name                                               *)
(***************************************************************************)

\* the longest name normalized
MaxNameLen == 3

NameAlphabet == {"a", "B", " ", ","}

RECURSIVE NamesOf(_)
NamesOf(n) ==
    IF n = 0 THEN {<<>>}
    ELSE {Append(s, c) : s \in NamesOf(n - 1), c \in NameAlphabet}

NormNames == UNION {NamesOf(n) : n \in 0..MaxNameLen}

\* a manager and a name to normalize
InitNorm ==
    /\ remote = 1
    /\ now = 0
    /\ dataFile = Absent
    /\ metaFile = NoMeta
    /\ pklFile = Absent
    /\ jsonFile = Absent
    /\ _data = NoneData
    /\ _name_index = EmptyDict
    /\ \E name \in NormNames :
          last = [Plain("__init__", "None") EXCEPT !.name = name]
    /\ pool = PoolIdle

\* _try_multiple_normalizations(name)
TryMultipleNormalizations ==
    /\ last' = [Plain("_try_multiple_normalizations", "value") EXCEPT
                  !.name = last.name,
                  !.norm = _try_multiple_normalizations(last.name)]
    /\ UNCHANGED <<remote, now, store, memory, pool>>

\* strategy i of _try_multiple_normalizations
VariantAt(i, name) ==
    CASE i = 1 -> Variant1(name)
      [] i = 2 -> Variant2(name)
      [] i = 3 -> Variant3(name)

\* strategy i applied to the name, and again to what it returned
NormalizeTwice ==
    \E i \in 1..3 :
        /\ last' = [Plain("normalize", "value") EXCEPT
                      !.name = last.name,
                      !.which = i,
                      !.norm = <<VariantAt(i, last.name),
                                 VariantAt(i, VariantAt(i, last.name))>>]
        /\ UNCHANGED <<remote, now, store, memory, pool>>

NextNorm == TryMultipleNormalizations \/ NormalizeTwice

SpecNorm == InitNorm /\ [][NextNorm]_vars

\* the name without the characters of `drop`, lowercased
Stripped(name, drop) ==
    LET kept == SelectSeq(name, LAMBDA c : c \notin drop)
    IN [i \in 1..Len(kept) |-> Lower(kept[i])]

\* C19: _try_multiple_normalizations returns, for every name, a non-empty
\* list without duplicates: the name lowercased without spaces and commas,
\* then without spaces, then without commas, each where it first occurs.
C19_VariantsInOrderNoDuplicates ==
    last.op = "_try_multiple_normalizations" =>
      LET v1 == Stripped(last.name, {" ", ","})
          v2 == Stripped(last.name, {" "})
          v3 == Stripped(last.name, {","})
          norm == last.norm
      IN /\ last.ret = "value"
         /\ norm # <<>>
         /\ \A i \in 1..Len(norm) : \A j \in 1..Len(norm) :
               i # j => norm[i] # norm[j]
         /\ {norm[i] : i \in 1..Len(norm)} = {v1, v2, v3}
         /\ norm[1] = v1
         /\ v2 # v1 => norm[2] = v2
         /\ v3 \notin {v1, v2} => norm[Len(norm)] = v3

\* a name with a space, a comma and a capital: three different strategies
C19_Witness ==
    /\ last.op = "_try_multiple_normalizations"
    /\ Len(last.norm) = 3
    /\ \E i \in 1..Len(last.name) : last.name[i] = "B"

\* C20: every normalization strategy is idempotent: applied to what it
\* returned, it returns the same string.
C20_VariantsIdempotent ==
    last.op = "normalize" => last.norm[2] = last.norm[1]

\* a strategy that removed two spaces of a name and lowercased a letter
C20_Witness ==
    /\ last.op = "normalize"
    /\ last.which = 2
    /\ Len(last.norm[1]) + 2 = Len(last.name)
    /\ \E i \in 1..Len(last.name) : last.name[i] = "B"
    /\ last.norm[2] = <<"b">>

(***************************************************************************)
(* The scorer on any record                                                 *)
(***************************************************************************)

\* name similarities are the fractions n/d with d up to MaxSimDen
MaxSimDen == 3

ScoreSims == {Rat(n, d) : n \in 0..MaxSimDen, d \in 1..MaxSimDen} \cap
             {r \in [n : 0..MaxSimDen, d : 1..MaxSimDen] : r.n <= r.d}

\* weight classes of records and hints: none, one less than 20 from none,
\* equal, 7 apart, 20 apart, more
ScoreWeights == {0, 10, 83, 90, 103, 110}

\* dates: none, unparsable, today, and the days around both thresholds
ScoreDates ==
    {NoDate, BadDate, DateAgo(0), DateAgo(364), DateAgo(365), DateAgo(1094),
     DateAgo(1095)}

ScoreRecords ==
    {[index |-> 0, original_name |-> <<"a">>, date |-> d, weight_class |-> w,
      total |-> t, dotscore |-> 0] :
        d \in ScoreDates, w \in ScoreWeights, t \in {0, 500}}

\* a manager, and the arguments of a call of the scorer
InitScore ==
    /\ remote = 1
    /\ now = 0
    /\ dataFile = Absent
    /\ metaFile = NoMeta
    /\ pklFile = Absent
    /\ jsonFile = Absent
    /\ _data = NoneData
    /\ _name_index = EmptyDict
    /\ \E record \in ScoreRecords, name_similarity \in ScoreSims,
          current_weight_class \in ScoreWeights :
          last = [Plain("__init__", "None") EXCEPT
                    !.hint = current_weight_class,
                    !.cands = <<Candidate(record, RZero, name_similarity,
                                          "arguments")>>]
    /\ pool = PoolIdle

\* _calculate_comprehensive_match_score on the arguments
Score ==
    /\ last.op = "__init__"
    /\ LET a == last.cands[1]
       IN last' = [Plain("_calculate_comprehensive_match_score", "value")
                   EXCEPT
                     !.hint = last.hint,
                     !.cands = <<Candidate(a.record,
                                     _calculate_comprehensive_match_score(
                                         a.record, a.name_similarity,
                                         last.hint, "", now),
                                     a.name_similarity, "scored")>>]
    /\ UNCHANGED <<remote, now, store, memory, pool>>

NextScore == Score

SpecScore == InitScore /\ [][NextScore]_vars

Scored == last.op = "_calculate_comprehensive_match_score"

\* C21: for every record, every name similarity in [0, 1] and every hint
\* that is not negative, the score lies in [0, 1].
C21_ScoreInUnitInterval ==
    Scored => /\ RLeq(RZero, last.cands[1].score)
              /\ RLeq(last.cands[1].score, ROne)

\* the upper end is met: a complete record of today, of the hinted class, at
\* similarity 1
C21_Witness ==
    /\ Scored
    /\ last.cands[1].record.weight_class = 90
    /\ last.hint = 90
    /\ last.cands[1].name_similarity = ROne
    /\ last.cands[1].record.total > 0
    /\ last.cands[1].record.date = DateAgo(0)
    /\ last.cands[1].score = ROne

\* the score of the same record and similarity under hint 0, where there is
\* no weight-class part
ScoreWithoutHint ==
    _calculate_comprehensive_match_score(last.cands[1].record,
        last.cands[1].name_similarity, 0, "", now)

\* C22: the weight-class part of the score, the score less the score under
\* hint 0, is 0.3 * max(0, 1 - |weight class - hint| / 20) when the record's
\* weight class and the hint are both positive and 0 otherwise: 0.3 at equal
\* classes, 0 from 20 kg on, 0.195 for a 90 kg record under hint 83.
C22_WeightClassPart ==
    Scored =>
      LET wc == last.cands[1].record.weight_class
          hint == last.hint
          diff == IF wc < hint THEN hint - wc ELSE wc - hint
          part == IF wc > 0 /\ hint > 0 /\ diff < 20
                  THEN [n |-> 3 * (20 - diff), d |-> 200]
                  ELSE [n |-> 0, d |-> 1]
      IN /\ last.cands[1].score.n * part.d * ScoreWithoutHint.d
              = (ScoreWithoutHint.n * part.d + part.n * ScoreWithoutHint.d)
                   * last.cands[1].score.d
         /\ (wc > 0 /\ hint = wc) => part.n * 10 = 3 * part.d
         /\ (wc = 90 /\ hint = 83) => part.n * 1000 = 195 * part.d

\* a 90 kg record scored under hint 83
C22_Witness ==
    /\ Scored
    /\ last.cands[1].record.weight_class = 90
    /\ last.hint = 83
    /\ last.cands[1].score = RAdd(ScoreWithoutHint, Rat(195, 1000))

\* C24: the score is 0.5 * name similarity, plus the weight-class part, plus
\* 0.1 for a date less than 365 days old, 0.05 for one less than 1095 days old
\* and 0 for an older, missing or unparsable one, plus 0.1 * completeness,
\* which is 0.5 for a total above 0, 0.3 for a weight class above 0 and 0.2
\* for a date that is present.
C24_ScoreIsSumOfFourParts ==
    Scored =>
      LET r == last.cands[1].record
          sim == last.cands[1].name_similarity
          diff == IF r.weight_class < last.hint
                  THEN last.hint - r.weight_class
                  ELSE r.weight_class - last.hint
          \* every part in thousandths, the similarity part times sim.d
          weight == IF r.weight_class > 0 /\ last.hint > 0 /\ diff < 20
                    THEN 15 * (20 - diff) ELSE 0
          recency == IF r.date.kind = "ymd" /\ r.date.ago + (now \div 24) < 365
                     THEN 100
                     ELSE IF r.date.kind = "ymd"
                             /\ r.date.ago + (now \div 24) < 1095
                     THEN 50 ELSE 0
          completeness == (IF r.total > 0 THEN 50 ELSE 0)
                          + (IF r.weight_class > 0 THEN 30 ELSE 0)
                          + (IF r.date.kind # "none" THEN 20 ELSE 0)
      IN last.cands[1].score.n * 1000 * sim.d
           = (500 * sim.n + (weight + recency + completeness) * sim.d)
               * last.cands[1].score.d

\* a record with a date that cannot be parsed: the date counts for
\* completeness and not for recency
C24_Witness ==
    /\ Scored
    /\ last.cands[1].record.date = BadDate
    /\ last.cands[1].record.total > 0
    /\ last.cands[1].record.weight_class = 90
    /\ last.hint = 83
    /\ last.cands[1].name_similarity = Rat(2, 3)
    /\ last.cands[1].score = Rat(1885, 3000)

(***************************************************************************)
(* Lookups before and after a reload of the persisted index                *)
(***************************************************************************)

\* a manager that has built and persisted its index looks a name up and
\* ends; a new manager on the same directory reloads the index at its first
\* lookup (later lookups of a manager find the index in memory)
NextRoundTrip ==
    \/ Restart
    \/ /\ last.op \in {"load_data", "__init__"}
       /\ \/ FindLifterCandidatesAny
          \/ GetLifterStatsRobustAny
          \/ GetLifterStatsBatchAny

SpecRoundTrip == InitLookup /\ [][NextRoundTrip]_vars

C25_UpdateReturnsWhatItDid ==
    [][last'.op = "update_if_needed" =>
         /\ last'.dl # "" => last'.need = "True"
         /\ last'.ret = "True" =>
               /\ last'.dl = "ok"
               /\ _name_index' = BuildIndex(dataFile'.val)
               /\ _load_index_fast(pklFile') = BuildIndex(dataFile'.val)
         /\ (last'.need = "False" \/ last'.dl = "failed") =>
               /\ last'.ret = "False"
               /\ UNCHANGED <<dataFile, metaFile, pklFile, _name_index>>
      ]_vars

\* C26: once update_if_needed has returned True, a needs_update asked before
\* the remote changes and before 24 hours have passed, and which does fetch
\* the remote fingerprint, returns False, however the download completed.
C26_RefreshConverges ==
    [][(/\ last.op = "update_if_needed"
        /\ last.ret = "True"
        /\ last'.op = "needs_update"
        /\ last'.head # NoHash)
         => last'.ret = "False"]_vars

(***************************************************************************)
(* Properties of the lookups, under SpecLookup                              *)
(***************************************************************************)

\* C27: looked up by the display name of one of its rows, the index built
\* from a table returns candidates, all of them records filed under that
\* name's own key, as exact or exact_duplicate.
C27_SelfLookupComplete ==
    (Finds /\ \E i \in 1..Len(dataFile.val) : dataFile.val[i].Name = last.name)
      => /\ last.cands # <<>>
         /\ \A i \in 1..Len(last.cands) :
               /\ KeyOfRecord(last.cands[i].record) = IndexKeyOf(last.name)
               /\ last.cands[i].match_type \in {"exact", "exact_duplicate"}

\* C28: medium confidence comes from a single prefix_match candidate under
\* a positive weight-class hint only.  Under hint 0 every result is not
\* found, high confidence for the one record of an exact key, or low
\* confidence; exact_duplicate candidates always give low confidence.
C28_MediumNeedsPrefixAndHint ==
    (Resolved /\ last.env.found) =>
      /\ last.env.confidence = "medium" =>
            /\ Len(last.cands) = 1
            /\ last.cands[1].match_type = "prefix_match"
            /\ last.hint > 0
      /\ last.hint = 0 =>
            \/ /\ last.env.confidence = "high"
               /\ Len(last.cands) = 1
               /\ last.cands[1].match_type = "exact"
            \/ last.env.confidence = "low"
      /\ last.cands[1].match_type = "exact_duplicate" =>
            last.env.confidence = "low"

\* the one record of the one key that starts with the name, a complete and
\* recent record five sixths like the name, found under hint 0: low confidence
C28_Witness ==
    /\ Resolved
    /\ last.hint = 0
    /\ Len(last.cands) = 1
    /\ last.cands[1].match_type = "prefix_match"
    /\ last.cands[1].name_similarity = Rat(5, 6)
    /\ RLess(Rat(6, 10), last.cands[1].score)
    /\ last.env.confidence = "low"

(***************************************************************************)
(* A batch lookup, then a single lookup of one of its names                 *)
(***************************************************************************)

\* get_lifter_stats_robust(name), with no hint, for a name of the list the
\* manager has just answered get_lifter_stats_batch for; the batch results
\* stay on record beside it
GetLifterStatsRobustAfterBatch ==
    /\ last.op = "get_lifter_stats_batch"
    /\ last.ret = "value"
    /\ ~Falsy(_name_index)
    /\ \E i \in 1..Len(last.name) :
          LET cands == FindCandidates(_name_index, last.name[i], 0, "",
                                      DefaultMaxCandidates, now)
          IN last' = [Plain("get_lifter_stats_robust", "value") EXCEPT
                        !.name = last.name[i],
                        !.max = DefaultMaxCandidates,
                        !.cands = cands,
                        !.env = Resolve(cands),
                        !.batch = last.batch]
    /\ UNCHANGED <<remote, now, store, memory, pool>>

NextAgree ==
    \/ last.op = "load_data" /\ GetLifterStatsBatchAny
    \/ GetLifterStatsRobustAfterBatch

SpecAgree == InitLookup /\ [][NextAgree]_vars

\* the indexes of the records filed under key k
IndexesUnder(k) ==
    {Get(_name_index, k)[j].index : j \in 1..Len(Get(_name_index, k))}

\* C29: a name get_lifter_stats_batch reports as found is reported as found
\* by get_lifter_stats_robust without hints too, and when the first variant
\* of the name is an index key both return the figures of a record filed
\* under that key.
C29_BatchAndSingleAgree ==
    (Resolved /\ HasKey(last.batch, last.name)) =>
      LET b == Get(last.batch, last.name)
          e == last.env
          k == Variant1(last.name)
      IN /\ b.found => e.found
         /\ HasKey(_name_index, k) =>
               /\ b.found /\ e.found
               /\ b.index \in IndexesUnder(k)
               /\ e.index \in IndexesUnder(k)
               /\ \E j \in 1..Len(Get(_name_index, k)) :
                     /\ Get(_name_index, k)[j].index = b.index
                     /\ b.total = StrOf(Get(_name_index, k)[j].total)
               /\ \E j \in 1..Len(Get(_name_index, k)) :
                     /\ Get(_name_index, k)[j].index = e.index
                     /\ e.total = StrOf(Get(_name_index, k)[j].total)

\* a name whose first variant is a key of three records: the batch found it
\* with confidence exact, the single lookup with low confidence
C29_Witness ==
    /\ Resolved
    /\ HasKey(last.batch, last.name)
    /\ HasKey(_name_index, Variant1(last.name))
    /\ Len(Get(_name_index, Variant1(last.name))) = 3
    /\ Get(last.batch, last.name).found
    /\ Get(last.batch, last.name).confidence = "exact"
    /\ last.env.found
    /\ last.env.confidence = "low"

(***************************************************************************)
(* The prefix branch on any index, the key '' included                      *)
(***************************************************************************)

\* the names looked up: the empty string, a space, prefixes of keys, a key
PrefixNames ==
    { <<>>, <<" ">>, <<"a">>, <<"b">>, <<"b", ",">>, <<"A", "b">> }

FindLifterCandidatesOnBuilt ==
    /\ last.op = "__init__"
    /\ Lookup("find_lifter_candidates", PrefixNames, {0, 90},
              {DefaultMaxCandidates})

NextPrefix == FindLifterCandidatesOnBuilt \/ Restart

SpecPrefix == InitBuild /\ [][NextPrefix]_vars

\* C30: where the search settles on a name that is no key, every key that
\* starts with it is strictly longer, so the divisor len(key) is never 0,
\* also for the empty name and an index with the key ''; the similarity of
\* every prefix_match candidate is len(name) / len(key), strictly between 0
\* and 1 unless the name is empty, and its score is strictly below 1.
C30_PrefixSimilarityBelowOne ==
    Finds =>
      /\ (FirstHit # 0 /\ ~HasKey(_name_index, Canonical)) =>
            \A k \in PrefixKeys(Canonical) : Len(k) > Len(Canonical)
      /\ \A i \in 1..Len(last.cands) :
            last.cands[i].match_type = "prefix_match" =>
               LET c == last.cands[i]
                   k == KeyOfRecord(c.record)
               IN /\ ~HasKey(_name_index, Canonical)
                  /\ Len(k) > 0
                  /\ c.name_similarity.n * Len(k)
                        = Len(Canonical) * c.name_similarity.d
                  /\ Canonical # <<>> =>
                        /\ RLess(RZero, c.name_similarity)
                        /\ RLess(c.name_similarity, ROne)
                  /\ RLess(c.score, ROne)

\* the empty name on an index with no key '': every key starts with it, at
\* similarity 0
C30_Witness ==
    /\ Finds
    /\ last.name = <<>>
    /\ Len(last.cands) >= 2
    /\ \A i \in 1..Len(last.cands) :
          /\ last.cands[i].match_type = "prefix_match"
          /\ last.cands[i].name_similarity = RZero

=============================================================================
